---- MODULE Spec2Model ----
(***************************************************************************)
(* A model of ThemeData (src/src/ThemeData.cpp, src/src/ThemeData.h): the  *)
(* theme loader of EmulationStation.  The state is one ThemeData instance  *)
(* (mPath, mVersion, mViews) together with the document and the outcome of *)
(* the last call; loadFile is one atomic action, as the program is single  *)
(* threaded and the parse runs to completion or to its throw.  call and ret *)
(* hold one property node handed to the switch of parseElement and what    *)
(* the switch made of it, for the specifications of the decoders.          *)
(*                                                                         *)
(* Text is a tuple of one-character strings.  Numbers read by strtod/atof  *)
(* are exact decimals num / 10^scale; the float narrowing of the program   *)
(* is injective on the decimals the bounded alphabets below can spell, so  *)
(* equality and order are preserved.                                       *)
(***************************************************************************)
EXTENDS Integers, Sequences, FiniteSets, TLC

(* The fields of the model's records.  TLC keeps a record's fields in the  *)
(* order in which it first met their names, which this definition fixes;   *)
(* every record below is written in this order, so that TLC's workers,     *)
(* which share the documents, never reorder one in place.                  *)
RecordFields ==
  [cause |-> 1, chars |-> 2, detail |-> 3, done |-> 4, elements |-> 5,
    elems |-> 6, err |-> 7, extra |-> 8, flag |-> 9, has |-> 10,
    hasName |-> 11, hi |-> 12, kind |-> 13, lo |-> 14, mPath |-> 15,
    mVersion |-> 16, mViews |-> 17, msg |-> 18, name |-> 19, null |-> 20,
    num |-> 21, ok |-> 22, out |-> 23, over |-> 24, path |-> 25,
    prefix |-> 26, properties |-> 27, props |-> 28, ptype |-> 29,
    raised |-> 30, scale |-> 31, str |-> 32, tag |-> 33, text |-> 34,
    thrown |-> 35, uint |-> 36, val |-> 37, value |-> 38, variant |-> 39,
    version |-> 40, versionTag |-> 41, views |-> 42, x |-> 43, y |-> 44 ]

VARIABLES mPath, mVersion, mViews, doc, thrown, call, ret

vars == <<mPath, mVersion, mViews, doc, thrown, call, ret>>

----------------------------------------------------------------------------
(* Bounds of the model *)

MaxViews == 2
MaxProps == 2
MaxTokLen == 3
MaxColorLen == 8
MaxPairLen == 5

(* Program constants *)

MINIMUM_THEME_VERSION == 3
CURRENT_THEME_VERSION == 3
VersionSentinel == -404

----------------------------------------------------------------------------
(* Generic helpers *)

SeqsUpTo(S, n) == UNION {[1..k -> S] : k \in 0..n}

Put(m, k, v) == [x \in (DOMAIN m) \cup {k} |-> IF x = k THEN v ELSE m[x]]

EmptyMap == <<>>

(* The one element of a singleton set.  Only({e(x) : x \in {v}}) is e with  *)
(* x naming the value v, which is computed once.                            *)
Only(S) == CHOOSE x \in S : TRUE

RECURSIVE Pow(_, _)
Pow(b, n) == IF n = 0 THEN 1 ELSE b * Pow(b, n - 1)

RECURSIVE IndexOf(_, _, _)
(* std::string::find(c) from position i (1-based); 0 stands for npos *)
IndexOf(s, c, i) ==
  IF i > Len(s) THEN 0
  ELSE IF s[i] = c THEN i
  ELSE IndexOf(s, c, i + 1)

Substr(s, from, to) == IF from > to THEN <<>> ELSE SubSeq(s, from, to)

Last(s) == s[Len(s)]

----------------------------------------------------------------------------
(* Numbers: strtod/atof on the decimal subset (whitespace, sign, digits,   *)
(* one point).  No exponent, hex, inf or nan: the alphabets cannot spell   *)
(* them.                                                                   *)

DigitVal ==
  [c \in {"0", "1", "2", "3", "4", "5", "6", "7", "8", "9"} |->
     CASE c = "0" -> 0 [] c = "1" -> 1 [] c = "2" -> 2 [] c = "3" -> 3
       [] c = "4" -> 4 [] c = "5" -> 5 [] c = "6" -> 6 [] c = "7" -> 7
       [] c = "8" -> 8 [] c = "9" -> 9]

IsDigit(c) == c \in DOMAIN DigitVal

RECURSIVE SkipSpace(_)
SkipSpace(s) == IF s # <<>> /\ Head(s) = " " THEN SkipSpace(Tail(s)) ELSE s

RECURSIVE TakeDigits(_)
TakeDigits(s) ==
  IF s # <<>> /\ IsDigit(Head(s)) THEN <<Head(s)>> \o TakeDigits(Tail(s)) ELSE <<>>

RECURSIVE DecOf(_)
DecOf(ds) == IF ds = <<>> THEN 0 ELSE 10 * DecOf(SubSeq(ds, 1, Len(ds) - 1)) + DigitVal[Last(ds)]

RECURSIVE Normalize(_, _)
(* the canonical form of m / 10^e: no trailing zero in the fraction *)
Normalize(m, e) ==
  IF e > 0 /\ m % 10 = 0 THEN Normalize(m \div 10, e - 1) ELSE [num |-> m, scale |-> e]

Dec(n) == [num |-> n, scale |-> 0]

DecLess(a, b) == a.num * Pow(10, b.scale) < b.num * Pow(10, a.scale)

strtod(s) ==
  LET s1   == SkipSpace(s)
      neg  == s1 # <<>> /\ Head(s1) = "-"
      s2   == IF s1 # <<>> /\ Head(s1) \in {"-", "+"} THEN Tail(s1) ELSE s1
      ip   == TakeDigits(s2)
      r    == SubSeq(s2, Len(ip) + 1, Len(s2))
      fp   == IF r # <<>> /\ Head(r) = "." THEN TakeDigits(Tail(r)) ELSE <<>>
      abs  == Normalize(DecOf(ip \o fp), Len(fp))
  IN IF ip = <<>> /\ fp = <<>> THEN Dec(0)
     ELSE [num |-> IF neg THEN 0 - abs.num ELSE abs.num, scale |-> abs.scale]

atof(s) == strtod(s)

----------------------------------------------------------------------------
(* pugixml text accessors.  A node's text is its characters and whether   *)
(* there is a PCDATA child at all; pugixml never stores an empty PCDATA.   *)

NoText == [chars |-> <<>>, has |-> FALSE]

Text(s) == IF s = <<>> THEN NoText ELSE [chars |-> s, has |-> TRUE]

(* A C string: a pointer that may be null *)
CStr(s) == [chars |-> s, null |-> FALSE]

NullStr == [chars |-> <<>>, null |-> TRUE]

as_string(t) == IF t.has THEN CStr(t.chars) ELSE CStr(<<>>)

as_float(t, def) == IF t.has THEN strtod(t.chars) ELSE def

as_bool(t) == t.has /\ Head(t.chars) \in {"1", "t", "T", "y", "Y"}

----------------------------------------------------------------------------
(* ThemeException: msg is the concatenation of what was streamed into it.  *)
(* prefix holds the file names streamed by setFile, cause the literal text *)
(* of the throw site, detail and version the values streamed after it.     *)

NewException == [cause |-> "", detail |-> <<>>, prefix |-> <<>>, version |-> Dec(0)]

setFile(e, filename) == [e EXCEPT !.prefix = Append(@, filename)]

Because(e, cause) == [e EXCEPT !.cause = cause]

BecauseOf(e, cause, detail) == [e EXCEPT !.cause = cause, !.detail = detail]

NotThrown == [msg |-> NewException, raised |-> FALSE]

Thrown(e) == [msg |-> e, raised |-> TRUE]

(* A call's outcome: a value, or the exception that left it *)
Ok(v) == [err |-> NewException, ok |-> TRUE, val |-> v]

Fail(e) == [err |-> e, ok |-> FALSE, val |-> <<>>]

----------------------------------------------------------------------------
(* boost::variant<Eigen::Vector2f, std::string, unsigned int, float, bool> *)
(* One record shape for all alternatives; `variant` is the active one and  *)
(* the slots of the others keep their defaults.                            *)

NoValue ==
  [flag |-> FALSE, str |-> <<>>, uint |-> [hi |-> 0, lo |-> 0], variant |-> "",
   x |-> Dec(0), y |-> Dec(0)]

Vector2fValue(x, y) == [NoValue EXCEPT !.variant = "Vector2f", !.x = x, !.y = y]

StringValue(s) == [NoValue EXCEPT !.variant = "std::string", !.str = s]

UIntValue(u) == [NoValue EXCEPT !.variant = "unsigned int", !.uint = u]

FloatValue(f) == [NoValue EXCEPT !.variant = "float", !.x = f]

BoolValue(b) == [NoValue EXCEPT !.variant = "bool", !.flag = b]

----------------------------------------------------------------------------
(* getHexColor *)

HexVal ==
  [c \in (DOMAIN DigitVal) \cup {"a", "b", "c", "d", "e", "f", "A", "B", "C", "D", "E", "F"} |->
     CASE c \in DOMAIN DigitVal -> DigitVal[c]
       [] c \in {"a", "A"} -> 10 [] c \in {"b", "B"} -> 11 [] c \in {"c", "C"} -> 12
       [] c \in {"d", "D"} -> 13 [] c \in {"e", "E"} -> 14 [] c \in {"f", "F"} -> 15]

IsHexDigit(c) == c \in DOMAIN HexVal

(* unsigned int: 32 bits, kept as two 16-bit halves *)
Half == 65536

UInt(hi, lo) == [hi |-> hi, lo |-> lo]

UIntMax == UInt(Half - 1, Half - 1)

RECURSIVE TakeHex(_)
TakeHex(s) ==
  IF s # <<>> /\ IsHexDigit(Head(s)) THEN <<Head(s)>> \o TakeHex(Tail(s)) ELSE <<>>

RECURSIVE HexOf(_)
(* the value of the digits, and whether it has left 32 bits *)
HexOf(ds) ==
  IF ds = <<>> THEN [over |-> FALSE, value |-> UInt(0, 0)]
  ELSE LET r  == HexOf(SubSeq(ds, 1, Len(ds) - 1))
           lo == r.value.lo * 16 + HexVal[Last(ds)]
           hi == r.value.hi * 16 + (lo \div Half)
       IN [over |-> r.over \/ hi >= Half, value |-> UInt(hi % Half, lo % Half)]

(* ss << str; ss >> std::hex >> val: the longest hexadecimal prefix; a     *)
(* failed extraction stores 0 (C++11), an overflowing one the maximum.     *)
ReadHex(s) ==
  LET ds == TakeHex(s)
  IN IF ds = <<>> THEN UInt(0, 0)
     ELSE IF HexOf(ds).over THEN UIntMax
     ELSE HexOf(ds).value

(* val << 8 *)
ShiftLeft8(val) == UInt((val.hi * 256 + (val.lo \div 256)) % Half, (val.lo * 256) % Half)

(* val | 0xFF *)
OrFF(val) == UInt(val.hi, val.lo - (val.lo % 256) + 255)

getHexColor(str) ==
  IF str.null THEN Fail(Because(NewException, "Empty color"))
  ELSE IF Len(str.chars) # 6 /\ Len(str.chars) # 8
    THEN Fail(BecauseOf(NewException, "Invalid color (bad length, must be 6 or 8)", str.chars))
  ELSE IF Len(str.chars) = 6 THEN Ok(OrFF(ShiftLeft8(ReadHex(str.chars))))
  ELSE Ok(ReadHex(str.chars))

----------------------------------------------------------------------------
(* boost::filesystem::path on POSIX, and resolvePath *)

HomePath == <<"/", "h">>

(* *path.begin(): the root name //name, the root directory /, or the text  *)
(* up to the first separator                                               *)
FirstElement(p) ==
  IF p = <<>> THEN <<>>
  ELSE IF Head(p) = "/"
    THEN IF Len(p) >= 3 /\ p[2] = "/" /\ p[3] # "/"
           THEN LET j == IndexOf(p, "/", 3)
                IN IF j = 0 THEN p ELSE SubSeq(p, 1, j - 1)
           ELSE <<"/">>
  ELSE LET j == IndexOf(p, "/", 1)
       IN IF j = 0 THEN p ELSE SubSeq(p, 1, j - 1)

RECURSIVE LastSlash(_, _)
(* the index of the last separator at or before i, 0 when there is none *)
LastSlash(p, i) == IF i = 0 THEN 0 ELSE IF p[i] = "/" THEN i ELSE LastSlash(p, i - 1)

RECURSIVE DropTrailingSlashes(_)
DropTrailingSlashes(p) ==
  IF Len(p) > 1 /\ Last(p) = "/" THEN DropTrailingSlashes(SubSeq(p, 1, Len(p) - 1)) ELSE p

(* path::parent_path(): the path without its last element *)
parent_path(p) ==
  LET i == LastSlash(p, Len(p))
  IN IF i = 0 THEN <<>> ELSE DropTrailingSlashes(SubSeq(p, 1, i))

(* path::operator/ : boost appends, adding a separator only when neither   *)
(* side supplies one; an empty right side changes nothing                  *)
PathAppend(lhs, rhs) ==
  IF rhs = <<>> THEN lhs
  ELSE IF Head(rhs) # "/" /\ lhs # <<>> /\ Last(lhs) # "/" THEN lhs \o <<"/">> \o rhs
  ELSE lhs \o rhs

generic_string(p) == p

(* resolvePath deciding by the token's first character, not its first     *)
(* path element                                                            *)
resolvePathByFirstChar(in, relative) ==
  IF in = <<>> THEN in
  ELSE IF Head(in) = "~" THEN HomePath \o Tail(in)
  ELSE IF Head(in) = "." THEN PathAppend(parent_path(relative), Tail(in))
  ELSE in

resolvePath(in, relative) ==
  IF in = <<>> THEN in
  ELSE LET relPath == parent_path(relative)
       IN IF FirstElement(in) = <<"~">> THEN generic_string(HomePath \o Tail(in))
          ELSE IF FirstElement(in) = <<".">> THEN generic_string(PathAppend(relPath, Tail(in)))
          ELSE generic_string(in)

----------------------------------------------------------------------------
(* ThemeData::sElementMap *)

ImageProps ==
  [p \in {"pos", "size", "origin", "path", "tile"} |->
     CASE p \in {"pos", "size", "origin"} -> "NORMALIZED_PAIR"
       [] p = "path" -> "PATH"
       [] p = "tile" -> "BOOLEAN"]

TextProps ==
  [p \in {"pos", "size", "text", "color", "fontPath", "fontSize", "center"} |->
     CASE p \in {"pos", "size"} -> "NORMALIZED_PAIR"
       [] p = "text" -> "STRING"
       [] p = "color" -> "COLOR"
       [] p = "fontPath" -> "PATH"
       [] p = "fontSize" -> "FLOAT"
       [] p = "center" -> "BOOLEAN"]

TextListProps ==
  [p \in {"pos", "size", "selectorColor", "selectedColor", "primaryColor",
          "secondaryColor", "fontPath", "fontSize"} |->
     CASE p \in {"pos", "size"} -> "NORMALIZED_PAIR"
       [] p \in {"selectorColor", "selectedColor", "primaryColor", "secondaryColor"} -> "COLOR"
       [] p = "fontPath" -> "PATH"
       [] p = "fontSize" -> "FLOAT"]

SoundProps == [p \in {"path"} |-> "PATH"]

sElementMap ==
  [t \in {"image", "text", "textlist", "sound"} |->
     CASE t = "image" -> ImageProps
       [] t = "text" -> TextProps
       [] t = "textlist" -> TextListProps
       [] t = "sound" -> SoundProps]

----------------------------------------------------------------------------
(* ThemeData::parseElement *)

(* first = str.substr(0, divider); second = str.substr(divider, npos) *)
PairFirst(str, divider) == Substr(str, 1, divider - 1)

PairSecond(str, divider) == Substr(str, divider, Len(str))

RECURSIVE LastIndexOf(_, _, _)
LastIndexOf(s, c, i) == IF i = 0 THEN 0 ELSE IF s[i] = c THEN i ELSE LastIndexOf(s, c, i - 1)

(* the divider taken at the last space, as str.rfind(' ') would *)
PairDividerLast(str) == LastIndexOf(str, " ", Len(str))

PairDivider(str) == IndexOf(str, " ", 1)

parseNormalizedPair(text, error) ==
  LET str     == as_string(text).chars
      divider == PairDivider(str)
  IN IF divider = 0 THEN Fail(BecauseOf(error, "invalid normalized pair", str))
     ELSE Ok(Vector2fValue(atof(PairFirst(str, divider)), atof(PairSecond(str, divider))))

parseColor(text) ==
  Only({IF c.ok THEN Ok(UIntValue(c.val)) ELSE c : c \in {getHexColor(as_string(text))}})

(* the switch with the FLOAT case storing the node's text undecoded *)
parsePropertyFloatAsText(ptype, text, themePath, error) ==
  CASE ptype = "NORMALIZED_PAIR" -> parseNormalizedPair(text, error)
    [] ptype = "STRING" -> Ok(StringValue(as_string(text).chars))
    [] ptype = "PATH" -> Ok(StringValue(resolvePath(as_string(text).chars, themePath)))
    [] ptype = "COLOR" -> parseColor(text)
    [] ptype = "FLOAT" -> Ok(StringValue(as_string(text).chars))
    [] ptype = "BOOLEAN" -> Ok(BoolValue(as_bool(text)))
    [] OTHER -> Fail(Because(error, "Unknown ElementPropertyType"))

(* the body of the switch over the property's declared type; the warning   *)
(* logged for a PATH that does not exist changes no state and is left out  *)
parseProperty(ptype, text, themePath, error) ==
  CASE ptype = "NORMALIZED_PAIR" -> parseNormalizedPair(text, error)
    [] ptype = "STRING" -> Ok(StringValue(as_string(text).chars))
    [] ptype = "PATH" -> Ok(StringValue(resolvePath(as_string(text).chars, themePath)))
    [] ptype = "COLOR" -> parseColor(text)
    [] ptype = "FLOAT" -> Ok(FloatValue(as_float(text, Dec(0))))
    [] ptype = "BOOLEAN" -> Ok(BoolValue(as_bool(text)))
    [] OTHER -> Fail(Because(error, "Unknown ElementPropertyType"))

(* the store keeping the first value of a name, as std::map::insert would *)
StorePropertyFirst(properties, name, value) ==
  IF DOMAIN properties # {} /\ name \in DOMAIN properties THEN properties ELSE Put(properties, name, value)

(* element.properties[node.name()] = value *)
StoreProperty(properties, name, value) == Put(properties, name, value)

RECURSIVE parseProperties(_, _, _, _, _, _)
(* the loop over the element node's children, from child i on *)
parseProperties(props, i, typeMap, themePath, error, properties) ==
  IF i > Len(props) THEN Ok(properties)
  ELSE LET node == props[i]
       IN IF node.tag \notin DOMAIN typeMap
            THEN Fail(BecauseOf(error, "Unknown property type", <<>>))
          ELSE Only({IF ~v.ok THEN v
                     ELSE parseProperties(props, i + 1, typeMap, themePath, error,
                                          StoreProperty(properties, node.tag, v.val)) :
                     v \in {parseProperty(typeMap[node.tag], node.text, themePath, error)}})

(* tag is history: the name of the node the element was parsed from.  The  *)
(* program keeps no such field (ThemeElement::type is never assigned).     *)
parseElement(root, typeMap, themePath) ==
  Only({IF ~ps.ok THEN ps
        ELSE Ok([extra |-> as_bool(root.extra), properties |-> ps.val, tag |-> root.tag]) :
        ps \in {parseProperties(root.props, 1, typeMap, themePath,
                                setFile(NewException, themePath), EmptyMap)}})

----------------------------------------------------------------------------
(* ThemeData::parseView *)

RECURSIVE parseElements(_, _, _, _, _)
parseElements(elems, i, themePath, error, elements) ==
  IF i > Len(elems) THEN Ok([elements |-> elements])
  ELSE LET node == elems[i]
       IN IF ~node.hasName
            THEN Fail(Because(error, "Element missing \"name\" attribute!"))
          ELSE IF node.tag \notin DOMAIN sElementMap
            THEN Fail(Because(error, "Unknown element of type"))
          ELSE Only({IF ~element.ok THEN element
                     ELSE parseElements(elems, i + 1, themePath, error,
                                        Put(elements, node.name, element.val)) :
                     element \in {parseElement(node, sElementMap[node.tag], themePath)}})

parseView(root, themePath) ==
  parseElements(root.elems, 1, themePath, setFile(NewException, themePath), EmptyMap)

----------------------------------------------------------------------------
(* ThemeData::loadFile.  self is the instance before the call; the result  *)
(* is the instance after it and what the call threw.                       *)

Instance(path, version, views, exc) ==
  [mPath |-> path, mVersion |-> version, mViews |-> views, thrown |-> exc]

(* root.child("version").text() *)
VersionText(d) == IF d.versionTag THEN d.version ELSE NoText

(* the store without the test on the view's size *)
StoreViewAlways(views, name, view) == Put(views, name, view)

(* if(view.elements.size() > 0) mViews[name] = view *)
StoreView(views, name, view) ==
  IF DOMAIN view.elements # {} THEN Put(views, name, view) ELSE views

RECURSIVE parseViews(_, _, _, _, _, _)
(* the loop over the root's <view> children, from child i on *)
parseViews(nodes, i, path, version, error, views) ==
  IF i > Len(nodes) THEN Instance(path, version, views, NotThrown)
  ELSE LET node == nodes[i]
       IN IF ~node.hasName
            THEN Instance(path, version, views,
                          Thrown(Because(error, "View missing \"name\" attribute!")))
          ELSE Only({IF ~view.ok THEN Instance(path, version, views, Thrown(view.err))
                     ELSE parseViews(nodes, i + 1, path, version, error,
                                     StoreView(views, node.name, view.val)) :
                     view \in {parseView(node, path)}})

(* mVersion = root.child("version").text().as_float(-404) and the two      *)
(* checks that follow it                                                   *)
checkVersion(d, path, error) ==
  LET version == as_float(VersionText(d), Dec(VersionSentinel))
  IN IF version = Dec(VersionSentinel)
       THEN Instance(path, version, EmptyMap, Thrown(Because(error, "<version> tag missing!")))
     ELSE IF DecLess(version, Dec(MINIMUM_THEME_VERSION))
       THEN Instance(path, version, EmptyMap,
                     Thrown([Because(error, "Theme is version too old") EXCEPT !.version = version]))
     ELSE parseViews(d.views, 1, path, version, error, EmptyMap)

(* mVersion = 0; mViews.clear(); then the document is read *)
readDocument(d, path, error) ==
  IF d.kind = "malformed"
    THEN Instance(path, Dec(0), EmptyMap, Thrown(Because(error, "XML parsing error")))
  ELSE IF d.kind = "noroot"
    THEN Instance(path, Dec(0), EmptyMap, Thrown(Because(error, "Missing <theme> tag!")))
  ELSE checkVersion(d, path, error)

loadFile(self, path, d) ==
  LET error == setFile(NewException, path)
  IN IF d.kind = "missing"
       THEN Instance(path, self.mVersion, self.mViews, Thrown(Because(error, "Missing file!")))
     ELSE readDocument(d, path, error)

----------------------------------------------------------------------------
(* The documents the model hands to loadFile *)

Chars(str) ==
  CASE str = "" -> <<>>
    [] str = "1 2" -> <<"1", " ", "2">>
    [] str = "2 1" -> <<"2", " ", "1">>
    [] str = "12" -> <<"1", "2">>
    [] str = "FF0000" -> <<"F", "F", "0", "0", "0", "0">>
    [] str = "FF" -> <<"F", "F">>
    [] str = "hi" -> <<"h", "i">>
    [] str = "./a" -> <<".", "/", "a">>
    [] str = "1.5" -> <<"1", ".", "5">>
    [] str = "true" -> <<"t", "r", "u", "e">>
    [] str = "-404" -> <<"-", "4", "0", "4">>
    [] str = "-1" -> <<"-", "1">>
    [] str = "2" -> <<"2">>
    [] str = "2.9" -> <<"2", ".", "9">>
    [] str = "3" -> <<"3">>
    [] str = "4" -> <<"4">>
    [] str = "/t/x" -> <<"/", "t", "/", "x">>
    [] str = "x" -> <<"x">>

Prop(tag, str) == [tag |-> tag, text |-> Text(Chars(str))]

(* the property nodes that elements of several properties are made of *)
PropNodes ==
  { Prop("pos", "1 2"), Prop("pos", "2 1"), Prop("color", "FF0000"),
    Prop("fontPath", "./a"), Prop("fontSize", "1.5"), Prop("bogus", "") }

(* the property nodes of elements of one property: a pair without a space  *)
(* and a color of a bad length among them                                  *)
SingleProps ==
  PropNodes \cup {Prop("pos", "12"), Prop("color", "FF"), Prop("text", "hi"),
                  Prop("center", "true")}

ViewNames == {"basic", "detailed"}

ElemTags == {"text", "sound", "bogus"}

ElemNode(hasName, tag, extra, props) ==
  [extra |-> extra, hasName |-> hasName, name |-> "logo", props |-> props, tag |-> tag]

ViewNode(hasName, name, elems) == [elems |-> elems, hasName |-> hasName, name |-> name]

ThemeDoc(versionTag, version, views) ==
  [kind |-> "theme", version |-> version, versionTag |-> versionTag, views |-> views]

NoTheme(kind) == [kind |-> kind, version |-> NoText, versionTag |-> FALSE, views |-> <<>>]

NoThemes == {NoTheme("missing"), NoTheme("malformed"), NoTheme("noroot")}

(* an element that parses and one that does not *)
GoodElem == ElemNode(TRUE, "text", Text(Chars("true")), <<Prop("pos", "1 2")>>)

BadElem == ElemNode(TRUE, "bogus", NoText, <<>>)

(* the children of a view: none, one that parses, one that does not *)
BasicElems == {<<>>, <<GoodElem>>, <<BadElem>>}

ViewNodes ==
  {ViewNode(TRUE, n, es) : n \in ViewNames, es \in BasicElems}
    \cup {ViewNode(FALSE, "", <<GoodElem>>)}

(* documents of up to MaxViews views *)
WideDocs == {ThemeDoc(TRUE, Text(Chars("3")), vs) : vs \in SeqsUpTo(ViewNodes, MaxViews)}

VersionTexts == {Text(Chars(v)) : v \in {"", "-404", "-1", "2", "2.9", "3", "4"}}

(* documents of every version declaration, with no view or one good view *)
VersionDocs ==
  {ThemeDoc(tag, v, vs) : tag \in BOOLEAN, v \in VersionTexts,
                          vs \in {<<>>, <<ViewNode(TRUE, "basic", <<GoodElem>>)>>}}

Docs == NoThemes \cup WideDocs \cup VersionDocs

(* text elements of up to MaxProps properties, and elements of every name *)
(* and tag of at most one property                                         *)
DeepElems ==
  {ElemNode(TRUE, "text", NoText, ps) : ps \in SeqsUpTo(PropNodes, MaxProps)}
    \cup {ElemNode(h, t, NoText, ps) : h \in BOOLEAN, t \in ElemTags,
                                        ps \in {<<>>} \cup {<<p>> : p \in SingleProps}}

(* documents of one named view holding one element *)
ElementDocs ==
  NoThemes \cup
  {ThemeDoc(TRUE, Text(Chars("3")), <<ViewNode(TRUE, "basic", <<e>>)>>) : e \in DeepElems}

Paths == {Chars("/t/x"), Chars("x")}

----------------------------------------------------------------------------
(* The state machine: one ThemeData instance and the calls made on it *)

NoCall == [path |-> <<>>, ptype |-> "", text |-> NoText]

NoRet == [done |-> FALSE, out |-> Ok(NoValue)]

(* ThemeData::ThemeData() *)
Init ==
  /\ mPath = <<>>
  /\ mVersion = Dec(0)
  /\ mViews = EmptyMap
  /\ doc = NoTheme("missing")
  /\ thrown = NotThrown
  /\ call = NoCall
  /\ ret = NoRet

LoadFile(path, d) ==
  \E r \in {loadFile([mPath |-> mPath, mVersion |-> mVersion, mViews |-> mViews], path, d)} :
     /\ mPath' = r.mPath
     /\ mVersion' = r.mVersion
     /\ mViews' = r.mViews
     /\ thrown' = r.thrown
     /\ doc' = d

(* any sequence of loads of documents of several views *)
Next ==
  /\ UNCHANGED <<call, ret>>
  /\ \E path \in Paths, d \in Docs : LoadFile(path, d)

Spec == Init /\ [][Next]_vars

(* any sequence of loads of documents of one element *)
NextElement ==
  /\ UNCHANGED <<call, ret>>
  /\ \E path \in Paths, d \in ElementDocs : LoadFile(path, d)

SpecElement == Init /\ [][NextElement]_vars

----------------------------------------------------------------------------
(* One property decoded on its own: Init draws the node's text, the action *)
(* applies the switch of parseElement to it.                               *)

Call(ptype, chars, path) == [path |-> path, ptype |-> ptype, text |-> Text(chars)]

PathChars == {".", "~", "/", "a"}

ColorChars == {"0", "a", "F", "g"}

PairChars == {"1", "2", ".", " ", "x"}

PathCalls == {Call("PATH", t, p) : t \in SeqsUpTo(PathChars, MaxTokLen), p \in Paths}

ColorCalls == {Call("COLOR", t, Chars("x")) : t \in SeqsUpTo(ColorChars, MaxColorLen)}

PairCalls == {Call("NORMALIZED_PAIR", t, Chars("x")) : t \in SeqsUpTo(PairChars, MaxPairLen)}

InitCall(calls) ==
  /\ mPath = <<>>
  /\ mVersion = Dec(0)
  /\ mViews = EmptyMap
  /\ doc = NoTheme("missing")
  /\ thrown = NotThrown
  /\ call \in calls
  /\ ret = NoRet

ParseProperty ==
  /\ ~ret.done
  /\ ret' = [done |-> TRUE,
             out |-> parseProperty(call.ptype, call.text, call.path,
                                   setFile(NewException, call.path))]
  /\ UNCHANGED <<mPath, mVersion, mViews, doc, thrown, call>>

NextProperty == ParseProperty

SpecPath == InitCall(PathCalls) /\ [][NextProperty]_vars

SpecColor == InitCall(ColorCalls) /\ [][NextProperty]_vars

SpecPair == InitCall(PairCalls) /\ [][NextProperty]_vars

----------------------------------------------------------------------------
(* Properties of loadFile *)

HasKey(m, k) == DOMAIN m # {} /\ k \in DOMAIN m

Parsed(d) == d.kind = "theme"

ViewsOf(d) == 1..Len(d.views)

(* C1: whenever a loadFile call fails, the stored views and the stored     *)
(* version after the call are what they were before the call.              *)
C1_FailedLoadKeepsState ==
  [][thrown'.raised => (mViews' = mViews /\ mVersion' = mVersion)]_vars

(* C2: when loadFile fails on a document of several views, no view of that *)
(* document is stored, the views before the failing one included.          *)
C2_NoViewOfFailedDocumentStored ==
  (thrown.raised /\ Parsed(doc) /\ Len(doc.views) > 1) =>
     \A i \in ViewsOf(doc) : doc.views[i].hasName => ~HasKey(mViews, doc.views[i].name)

(* an element node that parses: named, of a registered type, every child a *)
(* property of the type's schema whose text decodes                        *)
ValidElem(e, path) ==
  /\ e.hasName
  /\ e.tag \in DOMAIN sElementMap
  /\ \A k \in 1..Len(e.props) :
       /\ e.props[k].tag \in DOMAIN sElementMap[e.tag]
       /\ parseProperty(sElementMap[e.tag][e.props[k].tag], e.props[k].text, path,
                        NewException).ok

ValidViews(d, path) ==
  \A i \in ViewsOf(d) :
    /\ d.views[i].hasName
    /\ \A j \in 1..Len(d.views[i].elems) : ValidElem(d.views[i].elems[j], path)

(* the number a <version> tag declares *)
Declared(d) == strtod(d.version.chars)

Declares(d) == d.versionTag /\ d.version.has

(* C3: a document without <version> fails with the version-missing error;  *)
(* one declaring any value below 3, negative values included, fails with   *)
(* the too-old error reporting that value; one declaring 3 or more loads   *)
(* when its views are valid; after a successful load the version is >= 3.  *)
C3_VersionGate ==
  Parsed(doc) =>
    /\ ~doc.versionTag =>
         (thrown.raised /\ thrown.msg.cause = "<version> tag missing!")
    /\ (Declares(doc) /\ DecLess(Declared(doc), Dec(MINIMUM_THEME_VERSION))) =>
         /\ thrown.raised
         /\ thrown.msg.cause = "Theme is version too old"
         /\ thrown.msg.version = Declared(doc)
    /\ (Declares(doc) /\ ~DecLess(Declared(doc), Dec(MINIMUM_THEME_VERSION))
          /\ ValidViews(doc, mPath)) => ~thrown.raised
    /\ ~thrown.raised => ~DecLess(mVersion, Dec(MINIMUM_THEME_VERSION))

(* C4: every failure raised out of loadFile carries a message that begins  *)
(* with the prefix setFile makes of the path passed to loadFile.           *)
C4_EveryFailureNamesTheFile == thrown.raised => thrown.msg.prefix = <<mPath>>

(* the view nodes of d that yield no element *)
EmptyViewNode(d, i) == d.views[i].hasName /\ d.views[i].elems = <<>>

FilledViewNode(d, i) == d.views[i].hasName /\ d.views[i].elems # <<>>

(* C7 as stated: every stored view has an element, and the name of a view  *)
(* node without elements is no key of the mapping the load produced, also  *)
(* when an earlier node of the document has that name.                     *)
C7_EmptyViewNameNeverStored ==
  /\ \A k \in DOMAIN mViews : DOMAIN mViews[k].elements # {}
  /\ (~thrown.raised /\ Parsed(doc)) =>
       \A i \in ViewsOf(doc) : EmptyViewNode(doc, i) => ~HasKey(mViews, doc.views[i].name)

(* C7 amended: every stored view has an element, and after a successful    *)
(* load the keys of the mapping are the names of the view nodes that have  *)
(* an element: a node without elements adds no key and removes none.       *)
C7_StoredViewsNonEmpty ==
  /\ \A k \in DOMAIN mViews : DOMAIN mViews[k].elements # {}
  /\ (~thrown.raised /\ Parsed(doc)) =>
       /\ \A k \in DOMAIN mViews : \E i \in ViewsOf(doc) :
            FilledViewNode(doc, i) /\ doc.views[i].name = k
       /\ \A i \in ViewsOf(doc) : FilledViewNode(doc, i) => HasKey(mViews, doc.views[i].name)

C7_Witness ==
  /\ ~thrown.raised
  /\ Parsed(doc)
  /\ \E i, j \in ViewsOf(doc) :
       i < j /\ FilledViewNode(doc, i) /\ EmptyViewNode(doc, j)
         /\ doc.views[i].name # doc.views[j].name
  /\ DOMAIN mViews # {}

----------------------------------------------------------------------------
(* Properties of the stored elements *)

(* the alternative of the variant that holds a property of a declared type *)
VariantOf(ptype) ==
  CASE ptype = "NORMALIZED_PAIR" -> "Vector2f"
    [] ptype \in {"STRING", "PATH"} -> "std::string"
    [] ptype = "COLOR" -> "unsigned int"
    [] ptype = "FLOAT" -> "float"
    [] ptype = "BOOLEAN" -> "bool"

RegisteredTypes == {"image", "text", "textlist", "sound"}

ElemsOf(d, i) == 1..Len(d.views[i].elems)

(* the element node has a tag outside the registry, or a child outside its *)
(* type's schema                                                           *)
OutsideSchema(e) ==
  \/ e.tag \notin RegisteredTypes
  \/ \E k \in 1..Len(e.props) : e.props[k].tag \notin DOMAIN sElementMap[e.tag]

(* C8: every stored element comes from a node of a registered type, each   *)
(* of its entries is named in that type's schema and holds the variant     *)
(* alternative of the declared type; a document with an element tag or a   *)
(* property name outside the schema fails to load.                         *)
C8_StoredElementsConformToSchema ==
  /\ DOMAIN sElementMap = RegisteredTypes
  /\ \A v \in DOMAIN mViews : \A n \in DOMAIN mViews[v].elements :
       \E el \in {mViews[v].elements[n]} :
          /\ el.tag \in RegisteredTypes
          /\ \A p \in DOMAIN el.properties :
               /\ p \in DOMAIN sElementMap[el.tag]
               /\ el.properties[p].variant = VariantOf(sElementMap[el.tag][p])
  /\ (Parsed(doc) /\ \E i \in ViewsOf(doc) : \E j \in ElemsOf(doc, i) :
                        OutsideSchema(doc.views[i].elems[j]))
       => thrown.raised

C8_Witness ==
  /\ ~thrown.raised
  /\ HasKey(mViews, "basic")
  /\ \E n \in DOMAIN mViews["basic"].elements :
       \E p, q \in DOMAIN mViews["basic"].elements[n].properties :
          mViews["basic"].elements[n].properties[p].variant
            # mViews["basic"].elements[n].properties[q].variant

(* node (i, j) is the last element of its name in the last view of its name *)
LastOfItsName(d, i, j) ==
  /\ \A i2 \in ViewsOf(d) :
       (i2 > i /\ d.views[i2].elems # <<>>) => d.views[i2].name # d.views[i].name
  /\ \A j2 \in ElemsOf(d, i) : j2 > j => d.views[i].elems[j2].name # d.views[i].elems[j].name

(* C10: property children of one name do not make the load fail; after a   *)
(* successful load the element holds one entry per name, the decoded value *)
(* of the last child of that name.                                         *)
C10_LastPropertyWins ==
  Parsed(doc) =>
    /\ (Declares(doc) /\ ~DecLess(Declared(doc), Dec(MINIMUM_THEME_VERSION))
          /\ ValidViews(doc, mPath)) => ~thrown.raised
    /\ ~thrown.raised =>
         \A i \in ViewsOf(doc) : \A j \in ElemsOf(doc, i) :
            LastOfItsName(doc, i, j) =>
              \E node \in {doc.views[i].elems[j]} :
              \E stored \in {mViews[doc.views[i].name].elements[node.name].properties} :
                 /\ DOMAIN stored = {node.props[k].tag : k \in 1..Len(node.props)}
                 /\ \A k \in 1..Len(node.props) :
                      (\A q \in 1..Len(node.props) : q > k => node.props[q].tag # node.props[k].tag)
                        => stored[node.props[k].tag]
                             = parseProperty(sElementMap[node.tag][node.props[k].tag],
                                             node.props[k].text, mPath, NewException).val

C10_Witness ==
  /\ ~thrown.raised
  /\ Parsed(doc)
  /\ Len(doc.views) = 1
  /\ Len(doc.views[1].elems) = 1
  /\ doc.views[1].elems[1].props = <<Prop("pos", "1 2"), Prop("pos", "2 1")>>
  /\ mViews["basic"].elements["logo"].properties["pos"] = Vector2fValue(Dec(2), Dec(1))

----------------------------------------------------------------------------
(* Properties of the property decoders *)

Token == call.text.chars

Decoded == ret.out.val

(* C5 as stated: the empty token is returned unchanged, a token whose      *)
(* first character is '.' resolves against the theme file's directory, one *)
(* whose first character is '~' against the home directory, any other is   *)
(* returned unchanged.                                                     *)
C5_ResolveByFirstCharacter ==
  ret.done => (ret.out.ok /\ Decoded.str = resolvePathByFirstChar(Token, call.path))

(* the token up to its first separator *)
FirstSegment(token) ==
  IF \E i \in 1..Len(token) : token[i] = "/"
    THEN SubSeq(token, 1, (CHOOSE i \in 1..Len(token) :
                             token[i] = "/" /\ \A j \in 1..(i - 1) : token[j] # "/") - 1)
    ELSE token

(* C5 amended: the empty token is returned unchanged; a token whose first  *)
(* path segment is exactly "." resolves to the theme file's directory      *)
(* joined with what follows the first character; one whose first segment   *)
(* is exactly "~" to the home directory followed by what follows the first *)
(* character; every other token ("../a", ".hidden", "~a") is unchanged.    *)
C5_ResolveByFirstSegment ==
  ret.done =>
    /\ ret.out.ok
    /\ Decoded.variant = "std::string"
    /\ Decoded.str =
         IF Token = <<>> THEN Token
         ELSE IF FirstSegment(Token) = <<".">> THEN PathAppend(parent_path(call.path), Tail(Token))
         ELSE IF FirstSegment(Token) = <<"~">> THEN HomePath \o Tail(Token)
         ELSE Token

C5_Witness ==
  /\ ret.done
  /\ Token = <<".", "/", "a">>
  /\ call.path = <<"/", "t", "/", "x">>
  /\ Decoded.str = <<"/", "t", "/", "a">>

RECURSIVE HexNumber(_)
(* the base-16 value of up to six digits *)
HexNumber(s) == IF s = <<>> THEN 0 ELSE HexNumber(SubSeq(s, 1, Len(s) - 1)) * 16 + HexVal[Last(s)]

AllHex(s) == \A i \in 1..Len(s) : IsHexDigit(s[i])

BadLength == "Invalid color (bad length, must be 6 or 8)"

(* C6: a color text of a length other than 6 or 8 fails with the bad-      *)
(* length error and an absent or empty one with the empty-color error; six *)
(* hex digits decode to (value << 8) | 0xFF in 32 bits, eight hex digits   *)
(* to their value.                                                         *)
C6_ColorDecoding ==
  ret.done =>
    /\ Token = <<>> => (~ret.out.ok /\ ret.out.err.cause = "Empty color")
    /\ (Token # <<>> /\ Len(Token) \notin {6, 8}) =>
         (~ret.out.ok /\ ret.out.err.cause = BadLength)
    /\ (Len(Token) = 6 /\ AllHex(Token)) =>
         /\ ret.out.ok
         /\ Decoded.variant = "unsigned int"
         /\ Decoded.uint.hi = HexNumber(Token) \div 256
         /\ Decoded.uint.lo = (HexNumber(Token) % 256) * 256 + 255
    /\ (Len(Token) = 8 /\ AllHex(Token)) =>
         /\ ret.out.ok
         /\ Decoded.variant = "unsigned int"
         /\ Decoded.uint.hi = HexNumber(SubSeq(Token, 1, 4))
         /\ Decoded.uint.lo = HexNumber(SubSeq(Token, 5, 8))

Spaces(s) == {i \in 1..Len(s) : s[i] = " "}

(* exactly two tokens with one space between them *)
TwoTokens(s) == Cardinality(Spaces(s)) = 1 /\ Spaces(s) \cap {1, Len(s)} = {}

FirstSpace(s) == CHOOSE i \in Spaces(s) : \A j \in Spaces(s) : i <= j

InvalidPair == "invalid normalized pair"

(* C9 as stated: a pair is accepted only when its text is exactly two      *)
(* space-separated tokens; a text without a space fails with the invalid-  *)
(* pair error; an accepted pair is (first token, second token) as numbers. *)
C9_PairOnlyOfTwoTokens ==
  ret.done =>
    /\ ret.out.ok => TwoTokens(Token)
    /\ Spaces(Token) = {} => (~ret.out.ok /\ ret.out.err.cause = InvalidPair)
    /\ ret.out.ok =>
         /\ Decoded.x = atof(SubSeq(Token, 1, FirstSpace(Token) - 1))
         /\ Decoded.y = atof(SubSeq(Token, FirstSpace(Token) + 1, Len(Token)))

(* C9 amended: a pair is accepted exactly when its text holds a space; a   *)
(* text without one fails with the invalid-pair error naming the text; an  *)
(* accepted pair is (atof of the text before the first space, atof of the  *)
(* text from the first space on), so "1 2 3" is accepted as (1, 2).        *)
C9_PairSplitsAtFirstSpace ==
  ret.done =>
    IF Spaces(Token) = {}
      THEN ~ret.out.ok /\ ret.out.err.cause = InvalidPair /\ ret.out.err.detail = Token
      ELSE /\ ret.out.ok
           /\ Decoded.variant = "Vector2f"
           /\ Decoded.x = atof(SubSeq(Token, 1, FirstSpace(Token) - 1))
           /\ Decoded.y = atof(SubSeq(Token, FirstSpace(Token), Len(Token)))

C9_Witness ==
  /\ ret.done
  /\ Token = <<"1", " ", "2", " ", "1">>
  /\ ret.out.ok
  /\ Decoded.x = Dec(1)
  /\ Decoded.y = Dec(2)

====
